---- MODULE Spec2Model ----
(***************************************************************************)
(* Model of edl_generator.py: locate the ServiceTags JSON on the download  *)
(* pages, fetch it, extract the tag list, write one EDL file set per tag   *)
(* and optionally a URL index.                                             *)
(*                                                                         *)
(* Text is modelled as a sequence of one-character strings, so that        *)
(* replace / strip / lower / join act on characters as in the source.      *)
(* An address prefix is an atomic piece of text (it holds no newline).     *)
(* A Python Optional is <<>> for None and <<x>> for a value x.             *)
(***************************************************************************)
EXTENDS Integers, Sequences, FiniteSets, TLC

VARIABLES pc, run, args, net, fs, fs1, written, fetched, trace, json_url,
          data_bytes, root, values, entries, idx, status, error

vars == <<pc, run, args, net, fs, fs1, written, fetched, trace, json_url,
          data_bytes, root, values, entries, idx, status, error>>

\* ------------------------------------------------------------------ bounds
MaxRecords == 2
MaxPrefixes == 2
MaxEntries == 2

\* ------------------------------------------------------------ text helpers
None == <<>>
Some(x) == <<x>>

NL == "\n"

T_txt == <<".", "t", "x", "t">>
T_v4 == <<"-", "v", "4">>
T_v6 == <<"-", "v", "6">>
T_all == <<"a", "l", "l">>
T_ipv4 == <<"i", "p", "v", "4">>
T_ipv6 == <<"i", "p", "v", "6">>

\* code-point order of the characters the model uses
CharOrder == <<"\n", " ", ",", "-", ".", "/", "4", "6", ":", "A", "B", "_", "a", "b",
               "h", "i", "j", "l", "o", "p", "r", "t", "u", "v", "x">>

Ord(c) == CHOOSE i \in 1..Len(CharOrder) : CharOrder[i] = c

\* str.lower() on the model's alphabet
LowerChar(c) == IF c = "A" THEN "a" ELSE IF c = "B" THEN "b" ELSE c

Lower(s) == [i \in 1..Len(s) |-> LowerChar(s[i])]

\* s < t on Python strings (lexicographic by code point)
StrLess(s, t) ==
    \E k \in 0..Len(s) :
        /\ k <= Len(t)
        /\ \A i \in 1..k : s[i] = t[i]
        /\ \/ k = Len(s) /\ k < Len(t)
           \/ k < Len(s) /\ k < Len(t) /\ Ord(s[k + 1]) < Ord(t[k + 1])

RECURSIVE RStripSlash(_)
\* str.rstrip("/")
RStripSlash(s) ==
    IF s # <<>> /\ s[Len(s)] = "/" THEN RStripSlash(SubSeq(s, 1, Len(s) - 1)) ELSE s

RECURSIVE LStripSlash(_)
LStripSlash(s) ==
    IF s # <<>> /\ s[1] = "/" THEN LStripSlash(Tail(s)) ELSE s

\* str.strip("/")
StripSlash(s) == LStripSlash(RStripSlash(s))

RECURSIVE Join(_, _)
\* sep.join(parts)
Join(parts, sep) ==
    IF parts = <<>> THEN <<>>
    ELSE IF Len(parts) = 1 THEN parts[1]
    ELSE parts[1] \o <<sep>> \o Join(Tail(parts), sep)

RECURSIVE CollapseSlashes(_)
CollapseSlashes(s) ==
    IF Len(s) < 2 THEN s
    ELSE IF s[1] = "/" /\ s[2] = "/" THEN CollapseSlashes(Tail(s))
    ELSE <<s[1]>> \o CollapseSlashes(Tail(s))

\* Path(text): repeated and trailing slashes are dropped, the root stays "/"
PathOf(s) ==
    LET c == CollapseSlashes(s)
    IN  IF c = <<"/">> THEN c ELSE RStripSlash(c)

\* path / name
PathJoin(dir, name) ==
    IF dir # <<>> /\ dir[Len(dir)] = "/" THEN dir \o name ELSE dir \o <<"/">> \o name

\* normalise_filename: tag_name.replace(" ", "_")
normalise_filename(tag_name) ==
    [i \in 1..Len(tag_name) |-> IF tag_name[i] = " " THEN "_" ELSE tag_name[i]]

\* ---------------------------------------------------------- address prefixes
P_v4 == "10.0.0.0/8"
P_v4host == "10.0.0.1/8"
P_v6 == "2001:db8::/32"
P_bad == "not-an-ip"

PrefixChoices == {P_v4, P_v4host, P_v6, P_bad}

\* ipaddress.ip_network(pfx, strict=False).version; 0 stands for ValueError
IpVersion(pfx) ==
    IF pfx \in {P_v4, P_v4host} THEN 4
    ELSE IF pfx = P_v6 THEN 6
    ELSE 0

RECURSIVE SplitLoop(_, _, _)
SplitLoop(prefixes, ipv4, ipv6) ==
    IF prefixes = <<>> THEN <<ipv4, ipv6>>
    ELSE LET pfx == Head(prefixes)
         IN  IF IpVersion(pfx) = 0 THEN SplitLoop(Tail(prefixes), ipv4, ipv6)
             ELSE IF IpVersion(pfx) = 4
                  THEN SplitLoop(Tail(prefixes), Append(ipv4, pfx), ipv6)
                  ELSE SplitLoop(Tail(prefixes), ipv4, Append(ipv6, pfx))

RECURSIVE SplitLoopNoSkip(_, _, _)
\* variant: a prefix that does not parse falls through to the v6 list
SplitLoopNoSkip(prefixes, ipv4, ipv6) ==
    IF prefixes = <<>> THEN <<ipv4, ipv6>>
    ELSE LET pfx == Head(prefixes)
         IN  IF IpVersion(pfx) = 4
             THEN SplitLoopNoSkip(Tail(prefixes), Append(ipv4, pfx), ipv6)
             ELSE SplitLoopNoSkip(Tail(prefixes), ipv4, Append(ipv6, pfx))

split_prefixes_by_ip_version_noskip(prefixes) == SplitLoopNoSkip(prefixes, <<>>, <<>>)

split_prefixes_by_ip_version(prefixes) == SplitLoop(prefixes, <<>>, <<>>)

\* ------------------------------------------------------------- file system
\* fs maps a path to the text of the file at that path
WriteFile(f, path, text) ==
    [q \in DOMAIN f \cup {path} |-> IF q = path THEN text ELSE f[q]]

RECURSIVE PrefixText(_)
\* the f.write(f"{pfx}\n") loop
PrefixText(prefixes) ==
    IF prefixes = <<>> THEN <<>>
    ELSE <<Head(prefixes), NL>> \o PrefixText(Tail(prefixes))

\* variant: the file is opened for appending
write_prefix_file_append(f, path, prefixes) ==
    WriteFile(f, path,
              (IF path \in DOMAIN f THEN f[path] ELSE <<>>) \o PrefixText(prefixes))

RECURSIVE Dedup(_, _)
Dedup(s, seen) ==
    IF s = <<>> THEN <<>>
    ELSE IF Head(s) \in seen THEN Dedup(Tail(s), seen)
    ELSE <<Head(s)>> \o Dedup(Tail(s), seen \cup {Head(s)})

\* variant: duplicates are dropped before writing
write_prefix_file_dedup(f, path, prefixes) ==
    WriteFile(f, path, PrefixText(Dedup(prefixes, {})))

\* write_prefix_file: open(path, "w") truncates, then one line per prefix
write_prefix_file(f, path, prefixes) == WriteFile(f, path, PrefixText(prefixes))

\* -------------------------------------------------------------- tag records
TagRec(name, prefixes) == [name |-> name, prefixes |-> prefixes]

\* tag.get("name")
TagName(tag) == tag.name

\* tag.get("properties", {}).get("addressPrefixes", [])
TagPrefixes(tag) == IF tag.prefixes = None THEN <<>> ELSE tag.prefixes[1]

\* "x in list"
InList(x, list) == \E i \in 1..Len(list) : list[i] = x

\* truthiness of an Optional[List[str]]
ListGiven(opt) == opt # None /\ opt[1] # <<>>

\* variant: only the name is tested
SkippedNameOnly(tag) == TagName(tag) = None \/ TagName(tag)[1] = <<>>

\* if not name or not prefixes: continue
Skipped(tag) ==
    \/ TagName(tag) = None
    \/ TagName(tag)[1] = <<>>
    \/ TagPrefixes(tag) = <<>>

\* variant: the exclude list is consulted only when no include list is given
FilteredElif(name, include_tags, exclude_tags) ==
    IF ListGiven(include_tags) THEN ~InList(name, include_tags[1])
    ELSE ListGiven(exclude_tags) /\ InList(name, exclude_tags[1])

\* the include / exclude tests of build_edls
Filtered(name, include_tags, exclude_tags) ==
    \/ ListGiven(include_tags) /\ ~InList(name, include_tags[1])
    \/ ListGiven(exclude_tags) /\ InList(name, exclude_tags[1])

\* the three writes of one tag
WriteTag(f, output_dir, base_name, prefixes) ==
    LET base_path == PathJoin(output_dir, base_name \o T_txt)
        ipv4_path == PathJoin(output_dir, base_name \o T_v4 \o T_txt)
        ipv6_path == PathJoin(output_dir, base_name \o T_v6 \o T_txt)
        split == split_prefixes_by_ip_version(prefixes)
        f1 == write_prefix_file(f, base_path, prefixes)
        f2 == write_prefix_file(f1, ipv4_path, split[1])
    IN  write_prefix_file(f2, ipv6_path, split[2])

TagPaths(output_dir, base_name) ==
    { PathJoin(output_dir, base_name \o T_txt),
      PathJoin(output_dir, base_name \o T_v4 \o T_txt),
      PathJoin(output_dir, base_name \o T_v6 \o T_txt) }

\* ------------------------------------------------------------- JSON values
\* a JSON value under a field: its kind, its items when it is a list, and
\* its Python truthiness
JAbsent == [kind |-> "none", items |-> <<>>, truthy |-> FALSE]
JList(items) == [kind |-> "list", items |-> items, truthy |-> items # <<>>]
JEmptyDict == [kind |-> "dict", items |-> <<>>, truthy |-> FALSE]
JDict == [kind |-> "dict", items |-> <<>>, truthy |-> TRUE]
JEmptyStr == [kind |-> "str", items |-> <<>>, truthy |-> FALSE]
JStr == [kind |-> "str", items |-> <<>>, truthy |-> TRUE]

\* json.loads(data_bytes.decode("utf-8")): a document that decodes to an
\* object with the two fields of interest, or one that does not decode
Doc(valid, vals, val) == [valid |-> valid, values |-> vals, value |-> val]

\* a or b
PyOr(a, b) == IF a.truthy THEN a ELSE b

\* root.get("values") or root.get("value")
Lookup(r) == PyOr(r.values, r.value)

\* isinstance(values, list)
IsList(v) == v.kind = "list"

\* --------------------------------------------------------- download pages
DETAILS_URL == "https://www.microsoft.com/en-us/download/details.aspx?id=56519"
CONFIRM_URL == "https://www.microsoft.com/en-us/download/confirmation.aspx?id=56519"

L_json1 == "https://download.microsoft.com/download/a/ServiceTags_Public_20251117.json"
L_json2 == "https://download.microsoft.com/download/b/ServiceTags_Public_20251110.json"
L_nodate == "https://download.microsoft.com/download/a/ServiceTags_Public_latest.json"
L_other == "https://www.microsoft.com/en-us/download/details.aspx?id=1"

\* re.search(JSON_URL_PATTERN, link) on the links the pages may carry
MatchesPattern(link) == link \in {L_json1, L_json2}

RECURSIVE find_json_url(_)
\* find_json_url: a page is the sequence of its links; the leftmost match
find_json_url(html) ==
    IF html = <<>> THEN None
    ELSE IF MatchesPattern(Head(html)) THEN Some(Head(html))
    ELSE find_json_url(Tail(html))

\* ---------------------------------------------------------------- URL index
RECURSIVE InsertByKey(_, _)
\* insert e after every element whose key is <= its key (stable)
InsertByKey(sorted, e) ==
    IF sorted = <<>> THEN <<e>>
    ELSE IF StrLess(Lower(e[1]), Lower(Head(sorted)[1]))
         THEN <<e>> \o sorted
         ELSE <<Head(sorted)>> \o InsertByKey(Tail(sorted), e)

RECURSIVE SortLoop(_, _)
SortLoop(todo, acc) ==
    IF todo = <<>> THEN acc ELSE SortLoop(Tail(todo), InsertByKey(acc, Head(todo)))

\* variant: the entries keep the order in which they were written
SortedUnsorted(ents) == ents

\* sorted(entries, key=lambda item: item[0].lower())
Sorted(ents) == SortLoop(ents, <<>>)

\* (label, suffix) pairs, in the order of the tuple in the source
Variants == << <<T_all, <<>> >>, <<T_ipv4, T_v4>>, <<T_ipv6, T_v6>> >>

\* url_prefix of write_url_index
UrlPrefix(base_url, output_dir) ==
    LET b == RStripSlash(base_url)
        relative_dir == StripSlash(output_dir)
    IN  IF relative_dir # <<>> THEN b \o <<"/">> \o relative_dir ELSE b

IndexLine(name, base_name, variant, url_prefix) ==
    LET filename == base_name \o variant[2] \o T_txt
        url == url_prefix \o <<"/">> \o filename
    IN  name \o <<",">> \o url \o <<",">> \o variant[1]

RECURSIVE IndexLines(_, _)
IndexLines(sorted, url_prefix) ==
    IF sorted = <<>> THEN <<>>
    ELSE LET e == Head(sorted)
         IN  << IndexLine(e[1], e[2], Variants[1], url_prefix),
                IndexLine(e[1], e[2], Variants[2], url_prefix),
                IndexLine(e[1], e[2], Variants[3], url_prefix) >>
             \o IndexLines(Tail(sorted), url_prefix)

\* the text write_url_index writes: "\n".join(lines) + "\n"
IndexText(ents, output_dir, base_url) ==
    Join(IndexLines(Sorted(ents), UrlPrefix(base_url, output_dir)), NL) \o <<NL>>

\* ------------------------------------------------------------------ inputs
S_out == <<"o", "u", "t">>
S_root == <<"/">>
S_abs == <<"/", "o", "u", "t", "/">>
S_raw == <<"r">>
S_idx == <<"i">>
U_base == <<"h", ":", "/", "/", "x">>
U_base_slash == <<"h", ":", "/", "/", "x", "/">>

N_a == <<"a">>
N_A == <<"A">>
N_B == <<"B">>
N_a_b == <<"a", " ", "b">>
N_aub == <<"a", "_", "b">>

SeqsUpTo(S, n) == UNION { [1..k -> S] : k \in 0..n }

EmptyFs == [p \in {} |-> <<>>]
OldText == <<"old", NL>>

\* what the output directory may hold before a run
PriorFs == { EmptyFs,
             [p \in {PathJoin(S_out, N_aub \o T_txt)} |-> OldText],
             [p \in {PathJoin(S_out, N_a \o T_txt), S_idx} |-> OldText] }

Args(output_dir, include_tags, exclude_tags, save_json, url_index, url_base) ==
    [output_dir |-> output_dir, include_tags |-> include_tags,
     exclude_tags |-> exclude_tags, save_json |-> save_json,
     url_index |-> url_index, url_base |-> url_base]

\* nargs="+" : an option that is given carries at least one name
IncludeChoices == {None, Some(<<N_a, N_B>>)}
ExcludeChoices == {None, Some(<<N_B>>), Some(<<N_a_b>>)}

NoDoc == Doc(FALSE, JAbsent, JAbsent)
NoNet == [details |-> [ok |-> FALSE, page |-> <<>>],
          confirm |-> [ok |-> FALSE, page |-> <<>>],
          json |-> [ok |-> FALSE, doc |-> NoDoc]]

Tag_ab == TagRec(Some(N_a_b), Some(<<P_v4, P_bad>>))
Tag_aub == TagRec(Some(N_aub), Some(<<P_v6>>))
Tag_B == TagRec(Some(N_B), Some(<<P_v6, P_v4, P_v6>>))

\* documents the download may deliver to a whole run
MainDocs == { Doc(FALSE, JAbsent, JAbsent),
              Doc(TRUE, JAbsent, JAbsent),
              Doc(TRUE, JList(<<>>), JAbsent),
              Doc(TRUE, JList(<<Tag_ab, Tag_aub>>), JAbsent),
              Doc(TRUE, JAbsent, JList(<<Tag_B, Tag_ab>>)) }

PageChoices == { <<L_other, L_nodate>>, <<L_other, L_json1, L_json2>>, <<L_json2>> }

PageResponses == {[ok |-> FALSE, page |-> <<>>]} \cup
                 {[ok |-> TRUE, page |-> pg] : pg \in PageChoices}

DocResponses == {[ok |-> FALSE, doc |-> NoDoc]} \cup
                {[ok |-> TRUE, doc |-> d] : d \in MainDocs}

\* ----------------------------------------------------------------- actions
Fatal(kind, step) ==
    /\ pc' = "done"
    /\ status' = "1"
    /\ error' = Some([kind |-> kind, step |-> step])

\* variant: the confirmation page is fetched whatever the details page held
FetchDetailsAlwaysConfirm ==
    /\ pc = "details"
    /\ fetched' = Append(fetched, DETAILS_URL)
    /\ trace' = Append(trace, "locate")
    /\ \/ /\ ~net.details.ok
          /\ Fatal("TransportError", "locate")
          /\ UNCHANGED json_url
       \/ /\ net.details.ok
          /\ json_url' = find_json_url(net.details.page)
          /\ pc' = "confirm"
          /\ UNCHANGED <<status, error>>
    /\ UNCHANGED <<run, args, net, fs, fs1, written, data_bytes, root, values,
                   entries, idx>>

\* lines 62-63: fetch the details page and search it
FetchDetails ==
    /\ pc = "details"
    /\ fetched' = Append(fetched, DETAILS_URL)
    /\ trace' = Append(trace, "locate")
    /\ \/ /\ ~net.details.ok
          /\ Fatal("TransportError", "locate")
          /\ UNCHANGED json_url
       \/ /\ net.details.ok
          /\ json_url' = find_json_url(net.details.page)
          /\ pc' = IF json_url' # None THEN "check" ELSE "confirm"
          /\ UNCHANGED <<status, error>>
    /\ UNCHANGED <<run, args, net, fs, fs1, written, data_bytes, root, values,
                   entries, idx>>

\* lines 65-68: fall back to the confirmation page
FetchConfirm ==
    /\ pc = "confirm"
    /\ fetched' = Append(fetched, CONFIRM_URL)
    /\ \/ /\ ~net.confirm.ok
          /\ Fatal("TransportError", "locate")
          /\ UNCHANGED json_url
       \/ /\ net.confirm.ok
          /\ json_url' = find_json_url(net.confirm.page)
          /\ pc' = "check"
          /\ UNCHANGED <<status, error>>
    /\ UNCHANGED <<run, args, net, fs, fs1, written, trace, data_bytes, root,
                   values, entries, idx>>

\* lines 70-75: no URL on either page is fatal
CheckFound ==
    /\ pc = "check"
    /\ \/ /\ json_url = None
          /\ Fatal("ResourceNotFound", "locate")
       \/ /\ json_url # None
          /\ pc' = "download"
          /\ UNCHANGED <<status, error>>
    /\ UNCHANGED <<run, args, net, fs, fs1, written, fetched, trace, json_url,
                   data_bytes, root, values, entries, idx>>

\* variant: a failed download is recorded but the run goes on
FetchJsonGoesOn ==
    /\ pc = "download"
    /\ fetched' = Append(fetched, json_url[1])
    /\ trace' = Append(trace, "fetch_json")
    /\ \/ /\ ~net.json.ok
          /\ status' = "1"
          /\ error' = Some([kind |-> "TransportError", step |-> "fetch_json"])
          /\ pc' = "save"
          /\ UNCHANGED data_bytes
       \/ /\ net.json.ok
          /\ data_bytes' = net.json.doc
          /\ pc' = "save"
          /\ UNCHANGED <<status, error>>
    /\ UNCHANGED <<run, args, net, fs, fs1, written, json_url, root, values,
                   entries, idx>>

\* lines 77-78: download the document
FetchJson ==
    /\ pc = "download"
    /\ fetched' = Append(fetched, json_url[1])
    /\ trace' = Append(trace, "fetch_json")
    /\ \/ /\ ~net.json.ok
          /\ Fatal("TransportError", "fetch_json")
          /\ UNCHANGED data_bytes
       \/ /\ net.json.ok
          /\ data_bytes' = net.json.doc
          /\ pc' = "save"
          /\ UNCHANGED <<status, error>>
    /\ UNCHANGED <<run, args, net, fs, fs1, written, json_url, root, values,
                   entries, idx>>

\* lines 80-82 (and 252): keep the raw bytes when --save-json names a path
SaveJson ==
    /\ pc = "save"
    /\ IF args.save_json # None /\ args.save_json[1] # <<>>
       THEN /\ fs' = WriteFile(fs, PathOf(args.save_json[1]), <<data_bytes>>)
            /\ written' = written \cup {PathOf(args.save_json[1])}
            /\ trace' = Append(trace, "save_json")
       ELSE UNCHANGED <<fs, written, trace>>
    /\ pc' = "parse"
    /\ UNCHANGED <<run, args, net, fs1, fetched, json_url, data_bytes, root,
                   values, entries, idx, status, error>>

\* line 84: json.loads
ParseJson ==
    /\ pc = "parse"
    /\ trace' = Append(trace, "parse")
    /\ \/ /\ ~data_bytes.valid
          /\ Fatal("JSONDecodeError", "parse")
          /\ UNCHANGED root
       \/ /\ data_bytes.valid
          /\ root' = data_bytes
          /\ pc' = "extract"
          /\ UNCHANGED <<status, error>>
    /\ UNCHANGED <<run, args, net, fs, fs1, written, fetched, json_url,
                   data_bytes, values, entries, idx>>

\* variant: a document without a list is treated as an empty list
ExtractValuesLenient ==
    /\ pc = "extract"
    /\ trace' = Append(trace, "extract")
    /\ values' = IF IsList(Lookup(root)) THEN Lookup(root).items ELSE <<>>
    /\ pc' = "build_start"
    /\ UNCHANGED <<run, args, net, fs, fs1, written, fetched, json_url,
                   data_bytes, root, entries, idx, status, error>>

\* extract_values (line 255)
ExtractValues ==
    /\ pc = "extract"
    /\ trace' = Append(trace, "extract")
    /\ \/ /\ ~IsList(Lookup(root))
          /\ Fatal("MalformedDocument", "extract")
          /\ UNCHANGED values
       \/ /\ IsList(Lookup(root))
          /\ values' = Lookup(root).items
          /\ pc' = "build_start"
          /\ UNCHANGED <<status, error>>
    /\ UNCHANGED <<run, args, net, fs, fs1, written, fetched, json_url,
                   data_bytes, root, entries, idx>>

\* lines 144-145: entering build_edls
BuildStart ==
    /\ pc = "build_start"
    /\ trace' = Append(trace, "build")
    /\ entries' = <<>>
    /\ idx' = 1
    /\ pc' = "build"
    /\ UNCHANGED <<run, args, net, fs, fs1, written, fetched, json_url,
                   data_bytes, root, values, status, error>>

\* lines 147-175: one iteration of the loop over the tags
BuildRecord ==
    /\ pc = "build"
    /\ idx <= Len(values)
    /\ LET tag == values[idx]
           output_dir == PathOf(args.output_dir)
       IN  IF Skipped(tag) \/ Filtered(TagName(tag)[1], args.include_tags,
                                       args.exclude_tags)
           THEN UNCHANGED <<fs, written, entries>>
           ELSE LET name == TagName(tag)[1]
                    base_name == normalise_filename(name)
                IN  /\ fs' = WriteTag(fs, output_dir, base_name, TagPrefixes(tag))
                    /\ written' = written \cup TagPaths(output_dir, base_name)
                    /\ entries' = Append(entries, <<name, base_name>>)
    /\ idx' = idx + 1
    /\ UNCHANGED <<pc, run, args, net, fs1, fetched, trace, json_url,
                   data_bytes, root, values, status, error>>

\* line 177: the loop is over, the entries are returned
BuildReturn ==
    /\ pc = "build"
    /\ idx > Len(values)
    /\ pc' = "index"
    /\ UNCHANGED <<run, args, net, fs, fs1, written, fetched, trace, json_url,
                   data_bytes, root, values, entries, idx, status, error>>

\* lines 264-271: write_url_index when --url-index names a path
WriteUrlIndex ==
    /\ pc = "index"
    /\ IF args.url_index # None /\ args.url_index[1] # <<>>
       THEN /\ fs' = WriteFile(fs, PathOf(args.url_index[1]),
                               IndexText(entries, PathOf(args.output_dir),
                                         args.url_base))
            /\ written' = written \cup {PathOf(args.url_index[1])}
            /\ trace' = Append(trace, "index")
       ELSE UNCHANGED <<fs, written, trace>>
    /\ pc' = "return"
    /\ UNCHANGED <<run, args, net, fs1, fetched, json_url, data_bytes, root,
                   values, entries, idx, status, error>>

\* line 273
Return0 ==
    /\ pc = "return"
    /\ status' = "0"
    /\ pc' = "done"
    /\ UNCHANGED <<run, args, net, fs, fs1, written, fetched, trace, json_url,
                   data_bytes, root, values, entries, idx, error>>

\* the scheduler starts the program again: same arguments, same pages and
\* document, the files of the first run still in place
Rerun ==
    /\ pc = "done"
    /\ run = 1
    /\ run' = 2
    /\ fs1' = fs
    /\ pc' = "details"
    /\ written' = {}
    /\ fetched' = <<>>
    /\ trace' = <<>>
    /\ json_url' = None
    /\ data_bytes' = NoDoc
    /\ root' = NoDoc
    /\ values' = <<>>
    /\ entries' = <<>>
    /\ idx' = 1
    /\ status' = "running"
    /\ error' = None
    /\ UNCHANGED <<args, net, fs>>

\* ---------------------------------------------------------- specifications
Locals ==
    /\ run = 1
    /\ fs1 = EmptyFs
    /\ written = {}
    /\ fetched = <<>>
    /\ trace = <<>>
    /\ json_url = None
    /\ data_bytes = NoDoc
    /\ idx = 1
    /\ status = "running"
    /\ error = None

\* the whole program, run twice
Init ==
    /\ Locals
    /\ pc = "details"
    /\ root = NoDoc
    /\ entries = <<>>
    /\ values = <<>>
    /\ fs \in PriorFs
    /\ args \in { Args(S_out, i, e, s, u, U_base) :
                    i \in {None, Some(<<N_a_b>>)}, e \in {None, Some(<<N_aub>>)},
                    s \in {None, Some(S_raw)}, u \in {None, Some(S_idx)} }
    /\ net \in [details : PageResponses, confirm : PageResponses, json : DocResponses]

Next ==
    \/ FetchDetails
    \/ FetchConfirm
    \/ CheckFound
    \/ FetchJson
    \/ SaveJson
    \/ ParseJson
    \/ ExtractValues
    \/ BuildStart
    \/ BuildRecord
    \/ BuildReturn
    \/ WriteUrlIndex
    \/ Return0
    \/ Rerun

Spec == Init /\ [][Next]_vars

\* build_edls on its own: the tag list and the name lists are the inputs
BuildNames == {None, Some(<<>>), Some(N_a), Some(N_B), Some(N_a_b), Some(N_aub)}
SampleLists == {None, Some(<<>>), Some(<<P_v4>>), Some(<<P_v6, P_bad>>)}

\* a tag name identifies its tag: no two records of a document share one
DistinctNames(doc) ==
    \A i, j \in 1..Len(doc) :
        (i # j /\ doc[i].name # None /\ doc[i].name[1] # <<>>) => doc[i].name # doc[j].name

BuildDocs ==
    { doc \in SeqsUpTo({ TagRec(n, l) : n \in BuildNames, l \in SampleLists }, MaxRecords) :
        DistinctNames(doc) }

\* a single tag with every prefix list up to the bound
WriteDocs == { <<TagRec(Some(n), Some(l))>> :
                 n \in {N_a, N_a_b}, l \in SeqsUpTo(PrefixChoices, MaxPrefixes) }

InitBuild ==
    /\ Locals
    /\ pc = "build"
    /\ net = NoNet
    /\ root = NoDoc
    /\ entries = <<>>
    /\ fs \in {EmptyFs, [p \in {PathJoin(S_out, N_aub \o T_txt)} |-> OldText]}
    /\ \/ /\ values \in BuildDocs
          /\ args \in { Args(S_out, i, e, None, None, U_base) :
                          i \in IncludeChoices, e \in ExcludeChoices }
       \/ /\ values \in WriteDocs
          /\ args = Args(S_out, None, None, None, None, U_base)

NextBuild ==
    \/ BuildRecord
    \/ BuildReturn

SpecBuild == InitBuild /\ [][NextBuild]_vars

\* extract_values on its own: the parsed document is the input
JChoices == {JAbsent, JEmptyDict, JDict, JEmptyStr, JStr} \cup
            { JList(l) : l \in SeqsUpTo({Tag_ab, Tag_B}, MaxRecords) }

InitExtract ==
    /\ Locals
    /\ pc = "extract"
    /\ net = NoNet
    /\ entries = <<>>
    /\ fs = EmptyFs
    /\ values = <<>>
    /\ args = Args(S_out, None, None, None, None, U_base)
    /\ root \in { Doc(TRUE, a, b) : a \in JChoices, b \in JChoices }

NextExtract == ExtractValues

SpecExtract == InitExtract /\ [][NextExtract]_vars

\* write_url_index on its own: the entries, the directory and the base URL
\* are the inputs
IndexNames == {N_a, N_A, N_B, N_a_b}

IndexEntries == SeqsUpTo({ <<n, normalise_filename(n)>> : n \in IndexNames }, MaxEntries)

InitIndex ==
    /\ Locals
    /\ pc = "index"
    /\ net = NoNet
    /\ root = NoDoc
    /\ fs \in {EmptyFs, [p \in {S_idx} |-> OldText]}
    /\ values = <<>>
    /\ entries \in IndexEntries
    /\ args \in { Args(d, None, None, None, Some(S_idx), b) :
                    d \in {S_out, S_root, S_abs}, b \in {U_base, U_base_slash} }

NextIndex == WriteUrlIndex

SpecIndex == InitIndex /\ [][NextIndex]_vars

\* ------------------------------------------------------------------ claims
HasList(r) == r.values.kind = "list" \/ r.value.kind = "list"

ExposedLists(r) ==
    {r.values.items : k \in {r.values.kind} \cap {"list"}} \cup
    {r.value.items : k \in {r.value.kind} \cap {"list"}}

Given(opt) == opt # None /\ opt[1] # <<>>

\* C10 (as stated): extract_values fails with a malformed-document error
\* exactly when neither 'values' nor 'value' holds a list; a list of any
\* length, the empty one included, under one of the two names is accepted
\* and returned.
C10_AnyListAccepted ==
    pc # "extract" =>
        /\ (error # None) <=> ~HasList(root)
        /\ HasList(root) => pc = "build_start" /\ values \in ExposedLists(root)

\* C4 (as stated): a document without a list field ends the run with a
\* MalformedDocument failure and the run writes no file at all, whatever
\* optional arguments were given.
C4_NoFileAtAll ==
    (pc = "done" /\ root.valid /\ ~HasList(root)) =>
        /\ status = "1"
        /\ error # None /\ error[1].kind = "MalformedDocument"
        /\ written = {}

\* C4 (amended): a document without a list field ends the run with a
\* MalformedDocument failure; the run writes no EDL file and no index, and
\* its only write is the raw copy at the --save-json path when one is given.
C4_OnlyRawCopy ==
    (pc = "done" /\ root.valid /\ ~HasList(root)) =>
        /\ status = "1"
        /\ error # None /\ error[1].kind = "MalformedDocument"
        /\ written = (IF Given(args.save_json) THEN {PathOf(args.save_json[1])} ELSE {})
        /\ Given(args.save_json) => fs[PathOf(args.save_json[1])] = <<data_bytes>>

C4_Witness ==
    /\ pc = "done"
    /\ root.valid /\ ~HasList(root)
    /\ Given(args.save_json) /\ Given(args.url_index)
    /\ written # {}

StepOrder == <<"locate", "fetch_json", "save_json", "parse", "extract", "build", "index">>

StepPos(st) == CHOOSE i \in 1..Len(StepOrder) : StepOrder[i] = st

InTrace(st) == \E i \in 1..Len(trace) : trace[i] = st

SomeMatch(page) == \E i \in 1..Len(page) : MatchesPattern(page[i])

\* C7: the steps run in the order locate, fetch JSON, optional save, parse,
\* build, optional index; a fatal error ends the run at once with status 1
\* and no later step runs; status 0 is returned only when no fatal error
\* occurred.
C7_StepOrder ==
    /\ \A i, j \in 1..Len(trace) : i < j => StepPos(trace[i]) < StepPos(trace[j])
    /\ error # None =>
          /\ pc = "done" /\ status = "1"
          /\ trace[Len(trace)] = error[1].step
    /\ pc = "done" => (status \in {"0", "1"} /\ (status = "1" <=> error # None))
    /\ pc # "done" => status = "running"
    /\ status = "0" =>
          /\ \A st \in {"locate", "fetch_json", "parse", "extract", "build"} : InTrace(st)
          /\ InTrace("save_json") <=> Given(args.save_json)
          /\ InTrace("index") <=> Given(args.url_index)
          /\ net.details.ok /\ net.json.ok /\ net.json.doc.valid
          /\ SomeMatch(net.details.page) \/ (net.confirm.ok /\ SomeMatch(net.confirm.page))
          /\ HasList(net.json.doc)

C7_Witness ==
    /\ pc = "done"
    /\ status = "1"
    /\ error[1].kind = "MalformedDocument"
    /\ trace = <<"locate", "fetch_json", "save_json", "parse", "extract">>

FirstMatch(page) ==
    IF SomeMatch(page)
    THEN Some(page[CHOOSE i \in 1..Len(page) :
                     /\ MatchesPattern(page[i])
                     /\ \A j \in 1..(i - 1) : ~MatchesPattern(page[j])])
    ELSE None

PageUrls == {DETAILS_URL, CONFIRM_URL}

\* C8: the details page is fetched first; the confirmation page is fetched
\* exactly when the details page (once fetched) holds no matching URL; the
\* JSON is fetched from the first match of the first page that has one; with
\* no match on either page the run fails with ResourceNotFound and the JSON
\* is never fetched.
C8_Locator ==
    /\ pc # "details" => (fetched # <<>> /\ fetched[1] = DETAILS_URL)
    /\ \A i \in 1..Len(fetched) : fetched[i] = DETAILS_URL => i = 1
    /\ \A i \in 1..Len(fetched) : fetched[i] = CONFIRM_URL => i = 2
    /\ (pc \notin {"details", "confirm"} /\ net.details.ok) =>
          ((\E i \in 1..Len(fetched) : fetched[i] = CONFIRM_URL)
              <=> FirstMatch(net.details.page) = None)
    /\ ~net.details.ok => \A i \in 1..Len(fetched) : fetched[i] = DETAILS_URL
    /\ \A i \in 1..Len(fetched) : fetched[i] \notin PageUrls =>
          /\ i = Len(fetched)
          /\ IF FirstMatch(net.details.page) # None
             THEN fetched[i] = FirstMatch(net.details.page)[1]
             ELSE /\ net.confirm.ok
                  /\ Some(fetched[i]) = FirstMatch(net.confirm.page)
    /\ pc \in {"save", "parse", "extract", "build_start", "build", "index", "return"} =>
          fetched[Len(fetched)] \notin PageUrls
    /\ (pc = "done" /\ net.details.ok /\ net.confirm.ok
          /\ ~SomeMatch(net.details.page) /\ ~SomeMatch(net.confirm.page)) =>
          /\ error # None /\ error[1].kind = "ResourceNotFound"
          /\ fetched = <<DETAILS_URL, CONFIRM_URL>>

C8_Witness ==
    /\ pc = "save"
    /\ fetched = <<DETAILS_URL, CONFIRM_URL, L_json1>>
    /\ net.confirm.page = <<L_other, L_json1, L_json2>>

\* C6: a second run with the same arguments, pages and document leaves
\* every file exactly as the first run left it, whatever the directory held
\* before the first run.
C6_Idempotent == (run = 2 /\ pc = "done") => fs = fs1

C6_Witness ==
    /\ run = 2
    /\ pc = "done"
    /\ status = "0"
    /\ Len(entries) = 2
    /\ entries[1][2] = entries[2][2]
    /\ Given(args.url_index)
    /\ Given(args.save_json)

\* a record the claim counts as written: name and prefix list present and
\* non-empty, the name allowed by the include list (when one is given) and
\* not named by the exclude list
NamesOf(opt) == IF opt = None THEN {} ELSE { opt[1][i] : i \in 1..Len(opt[1]) }

Allowed(name) ==
    /\ args.include_tags = None \/ name \in NamesOf(args.include_tags)
    /\ name \notin NamesOf(args.exclude_tags)

Qualifies(tag) ==
    /\ tag.name # None /\ tag.name[1] # <<>>
    /\ tag.prefixes # None /\ tag.prefixes[1] # <<>>
    /\ Allowed(tag.name[1])

QualIdx == { i \in 1..Len(values) : Qualifies(values[i]) }

OutDir == PathOf(args.output_dir)

BaseOf(tag) == normalise_filename(tag.name[1])

PathAll(tag) == PathJoin(OutDir, BaseOf(tag) \o T_txt)
PathV4(tag) == PathJoin(OutDir, BaseOf(tag) \o T_v4 \o T_txt)
PathV6(tag) == PathJoin(OutDir, BaseOf(tag) \o T_v6 \o T_txt)

\* a text of newline-terminated lines, and its lines
Terminated(text) ==
    /\ Len(text) % 2 = 0
    /\ \A i \in 1..Len(text) : (text[i] = NL) <=> (i % 2 = 0)

LinesOf(text) == [i \in 1..(Len(text) \div 2) |-> text[2 * i - 1]]

HoldsLines(path, lines) ==
    /\ path \in DOMAIN fs
    /\ Terminated(fs[path])
    /\ LinesOf(fs[path]) = lines

OfVersion(prefixes, v) ==
    LET Test(p) == IpVersion(p) = v IN SelectSeq(prefixes, Test)

\* the lines a tag puts at a path: all its prefixes, or those of one version
LinesAt(tag, path) ==
    IF path = PathAll(tag) THEN tag.prefixes[1]
    ELSE IF path = PathV4(tag) THEN OfVersion(tag.prefixes[1], 4)
    ELSE OfVersion(tag.prefixes[1], 6)

TagPathSet(tag) == {PathAll(tag), PathV4(tag), PathV6(tag)}

RECURSIVE ExpectedEntries(_)
ExpectedEntries(tags) ==
    IF tags = <<>> THEN <<>>
    ELSE (IF Qualifies(Head(tags))
          THEN << <<Head(tags).name[1], BaseOf(Head(tags))>> >>
          ELSE <<>>) \o ExpectedEntries(Tail(tags))

EntriesAndPaths ==
    /\ entries = ExpectedEntries(values)
    /\ written = UNION { TagPathSet(values[i]) : i \in QualIdx }
    /\ \A p \in DOMAIN fs \ written : fs[p] = OldText

\* C1 (as stated): after build_edls every record with a non-empty name and
\* prefix list that passes the filters has its own three files holding its
\* prefixes and exactly one returned entry; other records yield no file and
\* no entry.
C1_OwnFileSet ==
    pc = "index" =>
        /\ EntriesAndPaths
        /\ \A i \in QualIdx : \A p \in TagPathSet(values[i]) :
              HoldsLines(p, LinesAt(values[i], p))

\* C1 (amended): every such record yields exactly one returned entry and
\* writes its three files; after build_edls each written path holds the
\* lines of the last record in document order that wrote to it (a record's
\* own prefixes unless a later written record normalises to the same base);
\* other records add no entry and write no file.
C1_LastWriterWins ==
    pc = "index" =>
        /\ EntriesAndPaths
        /\ \A p \in written :
              LET writers == { i \in QualIdx : p \in TagPathSet(values[i]) }
                  last == CHOOSE i \in writers : \A j \in writers : j <= i
              IN  HoldsLines(p, LinesAt(values[last], p))

C1_Witness ==
    /\ pc = "index"
    /\ Len(values) = 2
    /\ QualIdx = {1, 2}
    /\ BaseOf(values[1]) = BaseOf(values[2])
    /\ values[1].name # values[2].name
    /\ values[1].prefixes # values[2].prefixes
    /\ Len(entries) = 2

\* C3: a record is written only if its name is in the include list (when
\* one is given) and is not in the exclude list, which applies whether or
\* not an include list is given.
C3_Filter ==
    /\ \A k \in 1..Len(entries) : Allowed(entries[k][1])
    /\ \A i \in 1..(idx - 1) :
          (values[i].name # None /\ ~Allowed(values[i].name[1])) =>
              \A k \in 1..Len(entries) : entries[k][1] # values[i].name[1]

C3_Witness ==
    /\ pc = "index"
    /\ args.include_tags = Some(<<N_a, N_B>>)
    /\ args.exclude_tags = Some(<<N_B>>)
    /\ Len(values) = 2
    /\ values[1].name = Some(N_B) /\ values[1].prefixes = Some(<<P_v4>>)
    /\ values[2].name = Some(N_a) /\ values[2].prefixes = Some(<<P_v4>>)
    /\ entries = << <<N_a, N_a>> >>

\* the tag handled by the iteration that has just ended, when it was written
JustWritten == pc = "build" /\ idx > 1 /\ Qualifies(values[idx - 1])

SetOf(seq) == { seq[i] : i \in 1..Len(seq) }

\* C2: when a tag is written, each of its prefixes is in the combined file;
\* one that parses is in exactly the version file of its IP version, one
\* that does not parse is in neither version file.
C2_Classification ==
    JustWritten =>
        LET tag == values[idx - 1]
            all == SetOf(LinesOf(fs[PathAll(tag)]))
            v4 == SetOf(LinesOf(fs[PathV4(tag)]))
            v6 == SetOf(LinesOf(fs[PathV6(tag)]))
        IN  \A i \in 1..Len(tag.prefixes[1]) :
                LET p == tag.prefixes[1][i]
                IN  /\ p \in all
                    /\ IpVersion(p) = 4 => (p \in v4 /\ p \notin v6)
                    /\ IpVersion(p) = 6 => (p \in v6 /\ p \notin v4)
                    /\ IpVersion(p) = 0 => (p \notin v4 /\ p \notin v6)

C2_Witness ==
    /\ JustWritten
    /\ values[idx - 1].prefixes = Some(<<P_bad, P_v4host>>)

\* C9: when a tag is written, the combined file is the tag's prefix sequence,
\* in document order with duplicates kept, one newline-terminated prefix per
\* line; the v4 and v6 files keep the relative order of the source.
C9_OrderKept ==
    JustWritten =>
        LET tag == values[idx - 1]
            pfx == tag.prefixes[1]
            InV4(p) == p \in SetOf(LinesOf(fs[PathV4(tag)]))
            InV6(p) == p \in SetOf(LinesOf(fs[PathV6(tag)]))
        IN  /\ HoldsLines(PathAll(tag), pfx)
            /\ HoldsLines(PathV4(tag), SelectSeq(pfx, InV4))
            /\ HoldsLines(PathV6(tag), SelectSeq(pfx, InV6))

C9_Witness ==
    /\ JustWritten
    /\ values[idx - 1].prefixes = Some(<<P_v6, P_v6>>)
    /\ fs[PathV6(values[idx - 1])] = <<P_v6, NL, P_v6, NL>>

\* text with its trailing slashes removed, and with leading ones removed too
NoTrailingSlash(t) ==
    LET keep == { k \in 1..Len(t) : t[k] # "/" }
    IN  IF keep = {} THEN <<>>
        ELSE SubSeq(t, 1, CHOOSE k \in keep : \A m \in keep : m <= k)

NoOuterSlash(t) ==
    LET keep == { k \in 1..Len(t) : t[k] # "/" }
    IN  IF keep = {} THEN <<>>
        ELSE SubSeq(t, CHOOSE k \in keep : \A m \in keep : k <= m,
                       CHOOSE k \in keep : \A m \in keep : m <= k)

Labels == <<T_all, T_ipv4, T_ipv6>>
Suffixes == << <<>>, T_v4, T_v6 >>

\* url = base URL + "/" + directory + "/" + file
UrlAsStated(e, j) ==
    NoTrailingSlash(args.url_base) \o <<"/">> \o NoOuterSlash(OutDir) \o <<"/">>
        \o e[2] \o Suffixes[j] \o T_txt

\* the directory segment and its slash are left out when it is empty
UrlAmended(e, j) ==
    IF NoOuterSlash(OutDir) = <<>>
    THEN NoTrailingSlash(args.url_base) \o <<"/">> \o e[2] \o Suffixes[j] \o T_txt
    ELSE UrlAsStated(e, j)

Perms(n) == { f \in [1..n -> 1..n] : \A a, b \in 1..n : a # b => f[a] # f[b] }

KeyOrdered(f) ==
    \A k \in 1..(Len(entries) - 1) :
        ~StrLess(Lower(entries[f[k + 1]][1]), Lower(entries[f[k]][1]))

LinesAsStated(f) ==
    [m \in 1..(3 * Len(entries)) |->
        LET e == entries[f[((m - 1) \div 3) + 1]]
            j == ((m - 1) % 3) + 1
        IN  e[1] \o <<",">> \o UrlAsStated(e, j) \o <<",">> \o Labels[j]]

LinesAmended(f) ==
    [m \in 1..(3 * Len(entries)) |->
        LET e == entries[f[((m - 1) \div 3) + 1]]
            j == ((m - 1) % 3) + 1
        IN  e[1] \o <<",">> \o UrlAmended(e, j) \o <<",">> \o Labels[j]]

IndexFile == fs[PathOf(args.url_index[1])]

\* C5 (as stated): the index is the lines name,url,label, three per entry in
\* the order all, ipv4, ipv6, the entries ordered case-insensitively by
\* name, with url = base URL (no trailing slash) + "/" + directory (no outer
\* slashes) + "/" + file name.
C5_IndexAsStated ==
    pc = "return" =>
        \E f \in Perms(Len(entries)) :
            /\ KeyOrdered(f)
            /\ IndexFile = Join(LinesAsStated(f), NL) \o <<NL>>

\* C5 (amended): as stated, except that when the directory path stripped of
\* its slashes is empty (the output directory is the root), url = base URL
\* + "/" + file name.
C5_IndexAmended ==
    pc = "return" =>
        \E f \in Perms(Len(entries)) :
            /\ KeyOrdered(f)
            /\ IndexFile = Join(LinesAmended(f), NL) \o <<NL>>

C5_Witness ==
    /\ pc = "return"
    /\ entries = << <<N_B, N_B>>, <<N_a_b, N_aub>> >>
    /\ args.output_dir = S_root
    /\ args.url_base = U_base_slash
    /\ Len(IndexFile) > 6

====
